---- MODULE Spec2Model ----
(***************************************************************************)
(* TopImage (src/top_image.py): a raster terrain map sampled into a grid   *)
(* graph (read_nodes, read_edges), and read_path, which asks the graph for *)
(* a least-weight path and cuts it into terrain stages and rest days.      *)
(*                                                                         *)
(* Numbers.  The edge factor is 1 or 1.5 and pixel_length is an integer    *)
(* here, so every factor and distance of the program is a multiple of 1/2. *)
(* Factors and distances are held in halves (3 stands for 1.5); costs are  *)
(* integers.  Python's float arithmetic is exact on these values.          *)
(***************************************************************************)
EXTENDS Integers, Sequences, FiniteSets, TLC

(* image, density_dict, graph, step_size: the fields of a TopImage.        *)
(* query: the arguments the caller passes to read_path.  read_path changes *)
(* no field, so a behaviour asks one query, drawn by Init, at any point    *)
(* of any sequence of read_nodes and read_edges calls.                     *)
(* result: what the last call returned or raised.                          *)
VARIABLES image, density_dict, graph, step_size, query, result

vars == <<image, density_dict, graph, step_size, query, result>>

(* ------------------------------ bounds -------------------------------- *)
MaxStep == 2
MaxPixelLength == 2
MaxRest == 2

(* ------------------------------ values -------------------------------- *)
None == "None"

(* step_size is None until read_nodes sets it: <<>> for None, <<k>> for k. *)
Unset == <<>>

Set(k) == <<k>>

Green == <<129, 255, 0, 153>>
White == <<255, 255, 255, 153>>
Blue == <<22, 64, 223, 153>>

(* Twice the factors of the forward star. *)
Orthogonal == 2
Diagonal == 3

(* Terrain tables handed to read_edges: colour -> <<label, cost>>. *)
TablePlainWater == (Green :> <<"Plain", 1>>) @@ (Blue :> <<"Water", 1000>>)

TableTies == (Green :> <<"Plain", 3>>) @@ (White :> <<"Road", 3>>) @@ (Blue :> <<"Water", 5>>)

Tables == {TablePlainWater, TableTies}

EmptyDict == [c \in {} |-> <<"", 0>>]

(* Images: a QImage is its width, its height and the picture it holds;     *)
(* pixelColor reads the colour of one pixel of the picture.                 *)
ColumnsPlainWater(x, y) == IF x <= 1 THEN Green ELSE Blue

Lake(x, y) ==
    IF x = 4 /\ y = 0 THEN White
    ELSE IF <<x, y>> \in {<<1, 1>>, <<2, 1>>, <<2, 2>>} THEN Blue ELSE Green

Patchwork(x, y) == IF (x + 2 * y) % 3 = 0 THEN Blue ELSE IF (x + y) % 2 = 0 THEN Green ELSE White

pixelColor(img, x, y) ==
    CASE img.picture = "ColumnsPlainWater" -> ColumnsPlainWater(x, y)
      [] img.picture = "Lake" -> Lake(x, y)
      [] img.picture = "Patchwork" -> Patchwork(x, y)

Image3x3 == [width |-> 3, height |-> 3, picture |-> "ColumnsPlainWater"]

Images ==
    {Image3x3,
     [width |-> 6, height |-> 6, picture |-> "Lake"],
     [width |-> 6, height |-> 6, picture |-> "Patchwork"]}

(* ------------------------------ helpers ------------------------------- *)
Max(a, b) == IF a >= b THEN a ELSE b

(* Python's range(start, stop, step), step # 0, as a sequence. *)
Range(start, stop, step) ==
    LET n == IF step > 0
             THEN Max(0, (stop - start + step - 1) \div step)
             ELSE Max(0, (start - stop - step - 1) \div (-step))
    IN [k \in 1 .. n |-> start + (k - 1) * step]

Outcome(op, status, error) ==
    [op |-> op, status |-> status, error |-> error,
     nodes |-> <<>>, stages |-> <<>>, rests |-> <<>>]

EmptyGraph == [node |-> <<>>, edges |-> <<>>]

(* ----------------------------- read_nodes ----------------------------- *)
(* The sample points of the two loops. *)
SamplePoints(img, step) ==
    LET is == Range(0, img.width - 1, step)
        js == Range(0, img.height - 1, step)
    IN {<<is[a], js[b]>> : a \in 1 .. Len(is), b \in 1 .. Len(js)}

SeqRange(s) == {s[k] : k \in 1 .. Len(s)}

(* Colours not yet in the dictionary are registered as ('', 0). *)
AutoRegister(dict, colours) ==
    [c \in DOMAIN dict \cup colours |-> IF c \in DOMAIN dict THEN dict[c] ELSE <<"", 0>>]

(* Mutant of Clear: the nodes go, the edges stay. *)
ClearNodesOnly(g) == [g EXCEPT !.node = <<>>]

(* self._graph.clear(): no node and no edge is left. *)
Clear(g) == EmptyGraph

ReadNodes(step) ==
    /\ step_size' = Set(step)
    /\ IF step = 0
       THEN \* range() arg 3 must not be zero, raised after the graph was cleared
            /\ graph' = Clear(graph)
            /\ density_dict' = density_dict
            /\ result' = Outcome("read_nodes", "error", "ValueError")
       ELSE LET pts == SamplePoints(image, step)
            IN /\ graph' = [Clear(graph) EXCEPT !.node = [p \in pts |-> pixelColor(image, p[1], p[2])]]
               /\ density_dict' = AutoRegister(density_dict, {pixelColor(image, p[1], p[2]) : p \in pts})
               /\ result' = Outcome("read_nodes", "ok", None)
    /\ UNCHANGED <<image, query>>

(* ----------------------------- read_edges ----------------------------- *)
(* Mutant of MinDensity: the target wins a tie. *)
MinDensityTarget(ds, dt) == IF dt[2] <= ds[2] THEN dt ELSE ds

(* min(..., key=lambda d: d[1]): the first argument wins a tie. *)
MinDensity(ds, dt) == IF ds[2] <= dt[2] THEN ds ELSE dt

(* int(cost * factor), the factor in halves; costs are never negative. *)
Weight(cost, factor) == (cost * factor) \div 2

(* The four forward neighbours of s with their factors, in the code's order. *)
Star(s, step) ==
    << <<s, <<s[1] + step, s[2]>>, Orthogonal>>,
       <<s, <<s[1], s[2] + step>>, Orthogonal>>,
       <<s, <<s[1] + step, s[2] + step>>, Diagonal>>,
       <<s, <<s[1] + step, s[2] - step>>, Diagonal>> >>

(* Mutant of Sweep: the sweep of read_nodes, without the inset. *)
SweepFromOrigin(img, step) ==
    LET is == Range(0, img.width - 1, step)
        js == Range(0, img.height - 1, step)
    IN [n \in 1 .. 4 * Len(is) * Len(js) |->
           Star(<<is[((n - 1) \div (4 * Len(js))) + 1], js[(((n - 1) \div 4) % Len(js)) + 1]>>,
                step)[((n - 1) % 4) + 1]]

(* The inset sweep: every (s, target, factor) the edge pass visits, in the *)
(* order of the two loops and of the star.                                  *)
Sweep(img, step) ==
    LET is == Range(step, img.width - step - 1, step)
        js == Range(step, img.height - step - 1, step)
    IN [n \in 1 .. 4 * Len(is) * Len(js) |->
           Star(<<is[((n - 1) \div (4 * Len(js))) + 1], js[(((n - 1) \div 4) % Len(js)) + 1]>>,
                step)[((n - 1) % 4) + 1]]

(* get_density raises KeyError on a node the graph lacks or a colour the table lacks. *)
Resolvable(g, table, c) ==
    /\ c[1] \in DOMAIN g.node
    /\ c[2] \in DOMAIN g.node
    /\ g.node[c[1]] \in DOMAIN table
    /\ g.node[c[2]] \in DOMAIN table

MakeEdge(g, table, c) ==
    LET d == MinDensity(table[g.node[c[1]]], table[g.node[c[2]]])
    IN [s |-> c[1], t |-> c[2], factor |-> c[3], terrain |-> d[1], weight |-> Weight(d[2], c[3])]

(* add_edges_from consumes the lazy sweep: the edges before the first KeyError stay. *)
RECURSIVE FirstFailure(_, _, _, _)
FirstFailure(g, table, cs, k) ==
    IF k > Len(cs) THEN k
    ELSE IF Resolvable(g, table, cs[k]) THEN FirstFailure(g, table, cs, k + 1) ELSE k

ReadEdges(table) ==
    /\ density_dict' = table
    /\ IF step_size = Unset
       THEN \* width() - None
            /\ graph' = [graph EXCEPT !.edges = <<>>]
            /\ result' = Outcome("read_edges", "error", "TypeError")
       ELSE IF step_size[1] = 0
       THEN \* range() arg 3 must not be zero
            /\ graph' = [graph EXCEPT !.edges = <<>>]
            /\ result' = Outcome("read_edges", "error", "ValueError")
       ELSE LET cs == Sweep(image, step_size[1])
                k == FirstFailure(graph, table, cs, 1)
            IN /\ graph' = [graph EXCEPT !.edges = [n \in 1 .. k - 1 |-> MakeEdge(graph, table, cs[n])]]
               /\ result' = IF k > Len(cs) THEN Outcome("read_edges", "ok", None)
                            ELSE Outcome("read_edges", "error", "KeyError")
    /\ UNCHANGED <<image, step_size, query>>

(* ------------------------------ read_path ----------------------------- *)
(* G._adj[v]: the neighbours of v with the edge weights, in insertion order. *)
Neighbours(g, v) ==
    LET es == SelectSeq(g.edges, LAMBDA e : e.s = v \/ e.t = v)
    IN [k \in 1 .. Len(es) |-> <<IF es[k].s = v THEN es[k].t ELSE es[k].s, es[k].weight>>]

(* Mutant of HeapTop: the fringe as a queue, the oldest entry first. *)
HeapTopFifo(fringe) == CHOOSE e \in fringe : \A f \in fringe : e[2] <= f[2]

(* heappop: the least (distance, counter, node) of the fringe. *)
HeapTop(fringe) ==
    CHOOSE e \in fringe : \A f \in fringe : e[1] < f[1] \/ (e[1] = f[1] /\ e[2] <= f[2])

(* The loop over the neighbours of v in networkx's _dijkstra_multisource. *)
RECURSIVE Relax(_, _, _, _)
Relax(st, v, nbrs, k) ==
    IF k > Len(nbrs) THEN st
    ELSE LET u == nbrs[k][1]
             vu_dist == st.dist[v] + nbrs[k][2]
         IN IF u \notin DOMAIN st.dist /\ (u \notin DOMAIN st.seen \/ vu_dist < st.seen[u])
            THEN Relax([st EXCEPT !.seen = (u :> vu_dist) @@ @,
                                  !.fringe = @ \cup {<<vu_dist, st.c, u>>},
                                  !.c = @ + 1,
                                  !.paths = (u :> Append(st.paths[v], u)) @@ @],
                       v, nbrs, k + 1)
            ELSE Relax(st, v, nbrs, k + 1)

(* The main loop: pop, settle, stop at the target, relax the neighbours. *)
RECURSIVE DijkstraLoop(_, _, _)
DijkstraLoop(g, target, st) ==
    IF st.fringe = {} THEN st
    ELSE LET top == HeapTop(st.fringe)
             v == top[3]
             popped == [st EXCEPT !.fringe = @ \ {top}]
         IN IF v \in DOMAIN st.dist THEN DijkstraLoop(g, target, popped)
            ELSE LET settled == [popped EXCEPT !.dist = (v :> top[1]) @@ @]
                 IN IF v = target THEN settled
                    ELSE DijkstraLoop(g, target, Relax(settled, v, Neighbours(g, v), 1))

(* nx.single_source_dijkstra(G, source, target), source a node of G. *)
Dijkstra(g, source, target) ==
    IF source = target THEN [dist |-> (source :> 0), paths |-> (source :> <<source>>)]
    ELSE DijkstraLoop(g, target,
                      [dist |-> <<>>, seen |-> (source :> 0), c |-> 1,
                       fringe |-> {<<0, 0, source>>}, paths |-> (source :> <<source>>)])

(* self._graph.edges[(a, b)]: the edge joining a and b, in either direction. *)
EdgeOf(g, a, b) ==
    CHOOSE e \in SeqRange(g.edges) : (e.s = a /\ e.t = b) \/ (e.s = b /\ e.t = a)

(* distance = pixel_length * edge['factor'] * self._step_size, in halves. *)
Distance(pixel_length, factor, step) == pixel_length * factor * step

(* cost = distance * edge['weight'] / edge['factor'] *)
Cost(distance, weight, factor) == (distance * weight) \div factor

(* if rest and rest_cost >= rest *)
Resting(rest, rest_cost) == rest # 0 /\ rest_cost >= rest

(* Mutant of Staging: the final node closes no stage. *)
StagingNoFinal(terrain, stage_terrain, node, node_list) == terrain # stage_terrain

(* if terrain != stage_terrain or node == node_list[-1] *)
Staging(terrain, stage_terrain, node, node_list) ==
    terrain # stage_terrain \/ node = node_list[Len(node_list)]

(* Mutant of Reset: the accumulator runs on after an emission. *)
ResetNever(emitted, value) == value

(* An accumulator after an emission that sets it back to 0.0. *)
Reset(emitted, value) == IF emitted THEN 0 ELSE value

(* One pass of the loop over node_list[1:], w the loop's local variables. *)
(* A rest resets rest_distance and rest_cost; a stage resets               *)
(* stage_distance, and stage_cost is never reset.                          *)
WalkStep(g, step, pixel_length, rest, node_list, k, w) ==
    LET node == node_list[k]
        edge == EdgeOf(g, w.last_node, node)
        distance == Distance(pixel_length, edge.factor, step)
        cost == Cost(distance, edge.weight, edge.factor)
        terrain == edge.terrain
        rest_distance == w.rest_distance + distance
        rest_cost == w.rest_cost + cost
        stage_distance == w.stage_distance + distance
        stage_cost == w.stage_cost + cost
        resting == Resting(rest, rest_cost)
        staging == Staging(terrain, w.stage_terrain, node, node_list)
    IN [last_node |-> node,
        rests |-> IF resting
                  THEN Append(w.rests, [node |-> node, distance |-> rest_distance,
                                        cost |-> rest_cost, terrain |-> terrain])
                  ELSE w.rests,
        rest_distance |-> Reset(resting, rest_distance),
        rest_cost |-> Reset(resting, rest_cost),
        stages |-> IF staging
                   THEN Append(w.stages, [node |-> w.last_node, distance |-> stage_distance,
                                          cost |-> stage_cost, terrain |-> w.stage_terrain])
                   ELSE w.stages,
        stage_terrain |-> IF staging THEN terrain ELSE w.stage_terrain,
        stage_distance |-> Reset(staging, stage_distance),
        stage_cost |-> stage_cost]

RECURSIVE Walk(_, _, _, _, _, _, _)
Walk(g, step, pixel_length, rest, node_list, k, w) ==
    IF k > Len(node_list) THEN w
    ELSE Walk(g, step, pixel_length, rest, node_list, k + 1,
              WalkStep(g, step, pixel_length, rest, node_list, k, w))

PathOutcome(g, dict, step, q) ==
    IF q.source \notin DOMAIN g.node THEN Outcome("read_path", "error", "NodeNotFound")
    ELSE LET d == Dijkstra(g, q.source, q.target)
         IN IF q.target \notin DOMAIN d.dist THEN Outcome("read_path", "error", "NetworkXNoPath")
            ELSE IF g.node[q.source] \notin DOMAIN dict THEN Outcome("read_path", "error", "KeyError")
            ELSE LET node_list == d.paths[q.target]
                     w == Walk(g, step[1], q.pixel_length, q.rest, node_list, 2,
                               [last_node |-> node_list[1], rests |-> <<>>, stages |-> <<>>,
                                rest_distance |-> 0, rest_cost |-> 0,
                                stage_distance |-> 0, stage_cost |-> 0,
                                stage_terrain |-> dict[g.node[node_list[1]]][1]])
                 IN [op |-> "read_path", status |-> "ok", error |-> None,
                     nodes |-> node_list, stages |-> w.stages, rests |-> w.rests]

ReadPath ==
    /\ result' = PathOutcome(graph, density_dict, step_size, query)
    /\ UNCHANGED <<image, density_dict, graph, step_size, query>>

(* --------------------------- the state machine ------------------------ *)
Steps == -1 .. MaxStep

Coordinates == (0 .. 4) \X (0 .. 4)

Sources == {<<0, 0>>, <<1, 1>>, <<4, 0>>}

(* Rest budgets: a negative one, none, a small and a large one. *)
Rests == {-1, 0, MaxRest, 4 * MaxRest}

Queries ==
    [source : Sources, target : Coordinates,
     pixel_length : 1 .. MaxPixelLength, rest : Rests]

Init ==
    /\ image \in Images
    /\ query \in Queries
    /\ density_dict = EmptyDict
    /\ graph = EmptyGraph
    /\ step_size = Unset
    /\ result = Outcome("__init__", "ok", None)

Next ==
    \/ \E step \in Steps : ReadNodes(step)
    \/ \E table \in Tables : ReadEdges(table)
    \/ ReadPath

Spec == Init /\ [][Next]_vars

(* ======================= what the claims speak of ===================== *)
RECURSIVE SumSeq(_)
SumSeq(s) == IF s = <<>> THEN 0 ELSE Head(s) + SumSeq(Tail(s))

Min(S) == CHOOSE x \in S : \A y \in S : x <= y

Returned == result.op = "read_path" /\ result.status = "ok"

Path == result.nodes

EdgeCount == Len(Path) - 1

(* The edge walked k-th, and its distance (in halves) and cost as the    *)
(* specification states them: pixel_length * factor * step, and           *)
(* distance * weight / factor.                                            *)
PathEdge(k) == EdgeOf(graph, Path[k], Path[k + 1])

EdgeDistance(k) == query.pixel_length * PathEdge(k).factor * step_size[1]

EdgeCost(k) == query.pixel_length * step_size[1] * PathEdge(k).weight

SpanDistance(a, b) == SumSeq([k \in 1 .. b - a |-> EdgeDistance(a + k)])

SpanCost(a, b) == SumSeq([k \in 1 .. b - a |-> EdgeCost(a + k)])

Distances(entries) == SumSeq([k \in 1 .. Len(entries) |-> entries[k].distance])

Costs(entries) == SumSeq([k \in 1 .. Len(entries) |-> entries[k].cost])

(* The terrain label the walk compares edge k with: that of the edge      *)
(* before it, and the source node's own label for the first edge.         *)
Label(k) == IF k = 0 THEN density_dict[graph.node[Path[1]]][1] ELSE PathEdge(k).terrain

(* Least total weight from source to every node, by relaxing every edge   *)
(* in both directions until nothing changes (Bellman-Ford).               *)
Far(g) == 1 + SumSeq([k \in 1 .. Len(g.edges) |-> g.edges[k].weight])

RelaxAll(g, d) ==
    [n \in DOMAIN d |->
        Min({d[n]} \cup {d[e.s] + e.weight : e \in {x \in SeqRange(g.edges) : x.t = n}}
                   \cup {d[e.t] + e.weight : e \in {x \in SeqRange(g.edges) : x.s = n}})]

RECURSIVE LeastWeights(_, _)
LeastWeights(g, d) == LET d2 == RelaxAll(g, d) IN IF d2 = d THEN d ELSE LeastWeights(g, d2)

LeastWeight(g, source, target) ==
    LeastWeights(g, [n \in DOMAIN g.node |-> IF n = source THEN 0 ELSE Far(g)])[target]

Connected(g, source, target) ==
    /\ source \in DOMAIN g.node
    /\ target \in DOMAIN g.node
    /\ LeastWeight(g, source, target) < Far(g)

Joined(g, a, b) == \E e \in SeqRange(g.edges) : (e.s = a /\ e.t = b) \/ (e.s = b /\ e.t = a)

(* ------------------------------- claims ------------------------------- *)

(* C1: the node sequence read_path returns starts at source, ends at      *)
(* target, steps along edges of the graph (in either direction), and no   *)
(* source-to-target path of the graph weighs less; and the query finds a  *)
(* path whenever source and target are connected.                         *)
C1_ShortestPath ==
    /\ Returned =>
          /\ Path[1] = query.source
          /\ Path[Len(Path)] = query.target
          /\ \A k \in 1 .. EdgeCount : Joined(graph, Path[k], Path[k + 1])
          /\ SumSeq([k \in 1 .. EdgeCount |-> PathEdge(k).weight])
                = LeastWeight(graph, query.source, query.target)
    /\ (result.op = "read_path" /\ result.error \in {"NodeNotFound", "NetworkXNoPath"})
          => ~Connected(graph, query.source, query.target)

(* A detour was returned although source and target are joined by an edge. *)
C1_Witness ==
    /\ Returned
    /\ EdgeCount >= 2
    /\ Joined(graph, query.source, query.target)
    /\ EdgeOf(graph, query.source, query.target).weight
          > SumSeq([k \in 1 .. EdgeCount |-> PathEdge(k).weight])

(* The edges at which the walk emits a stage entry: an edge whose label   *)
(* differs from the label it is compared with, and the last edge.         *)
Emissions == {k \in 1 .. EdgeCount : k = EdgeCount \/ Label(k) # Label(k - 1)}

(* The edges that open a maximal run of equal terrain labels. *)
Runs == {k \in 1 .. EdgeCount : k = 1 \/ Label(k) # PathEdge(k - 1).terrain}

(* The j-th least member of a set of numbers; 0 stands before the first. *)
Nth(S, j) == IF j = 0 THEN 0 ELSE CHOOSE k \in S : Cardinality({i \in S : i <= k}) = j

(* The number of edges walked when the last rest entry was emitted. *)
LastRest ==
    IF result.rests = <<>> THEN 0
    ELSE CHOOSE k \in 1 .. EdgeCount : Path[k + 1] = result.rests[Len(result.rests)].node

(* C2 as claimed: with a rest budget > 0 the stage distances and the rest *)
(* distances both add up to the per-edge distances of the whole path.     *)
C2_Original ==
    (Returned /\ query.rest > 0) =>
        /\ Distances(result.stages) = Distances(result.rests)
        /\ Distances(result.rests) = SpanDistance(0, EdgeCount)

(* C2 amended: with a rest budget > 0 the stage distances add up to the   *)
(* per-edge distances of the whole path, and the rest distances add up to *)
(* the per-edge distances of the edges walked up to the last rest entry:  *)
(* the edges after the last rest are in no rest entry.                    *)
C2_Amended ==
    (Returned /\ query.rest > 0) =>
        /\ Distances(result.stages) = SpanDistance(0, EdgeCount)
        /\ Distances(result.rests) = SpanDistance(0, LastRest)
        /\ Distances(result.rests) <= Distances(result.stages)

(* Several stages, a rest, and edges walked after the last rest. *)
C2_Witness ==
    /\ Returned
    /\ query.rest > 0
    /\ Len(result.stages) >= 2
    /\ Len(result.rests) >= 1
    /\ LastRest < EdgeCount
    /\ \E k \in 1 .. EdgeCount : PathEdge(k).factor = Diagonal

(* C3: a rest budget of 0 or less yields no rest entry. *)
C3_NoRestsWhenDisabled == (Returned /\ query.rest <= 0) => result.rests = <<>>

(* C4 as claimed: one stage per maximal run of equal edge labels, each    *)
(* stage carrying its run's label.                                        *)
C4_Original ==
    (Returned /\ EdgeCount >= 1) =>
        /\ Len(result.stages) = Cardinality(Runs)
        /\ \A j \in 1 .. Len(result.stages) :
              result.stages[j].terrain = PathEdge(Nth(Runs, j)).terrain

(* C4 amended: a stage entry is emitted at an edge exactly when its label *)
(* differs from the label of the edge before it (for the first edge: from *)
(* the source node's own label) or the edge is the last of the path; a    *)
(* stage carries the label the walk held when the stage began and the     *)
(* node the closing edge starts from; a path whose edges all carry the    *)
(* source node's own label yields exactly one stage.                      *)
C4_Amended ==
    (Returned /\ EdgeCount >= 1) =>
        /\ Len(result.stages) = Cardinality(Emissions)
        /\ \A j \in 1 .. Len(result.stages) :
              /\ result.stages[j].terrain = Label(Nth(Emissions, j - 1))
              /\ result.stages[j].node = Path[Nth(Emissions, j)]
        /\ (\A k \in 1 .. EdgeCount : Label(k) = Label(0)) => Len(result.stages) = 1

(* A path of three or more edges whose label changes in its middle. *)
C4_Witness ==
    /\ Returned
    /\ EdgeCount >= 3
    /\ Len(result.stages) >= 2
    /\ \E k \in 2 .. EdgeCount - 1 : Label(k) # Label(k - 1)

(* C5: every edge joins s to one of its four forward neighbours, with     *)
(* factor 1 (right, down) or 1.5 (the diagonals); its weight is a natural *)
(* number, the truncation of (lower endpoint cost * factor); its label is *)
(* that of the endpoint of lower cost, of s when the costs are equal.     *)
C5_EdgeWeights ==
    \A k \in 1 .. Len(graph.edges) :
        LET e == graph.edges[k]
            ds == density_dict[graph.node[e.s]]
            dt == density_dict[graph.node[e.t]]
            low == IF dt[2] < ds[2] THEN dt ELSE ds
            dx == e.t[1] - e.s[1]
            dy == e.t[2] - e.s[2]
            st == step_size[1]
            diagonal == dx = st /\ dy \in {st, -st}
            orthogonal == (dx = st /\ dy = 0) \/ (dx = 0 /\ dy = st)
        IN /\ orthogonal \/ diagonal
           /\ e.factor = IF diagonal THEN 3 ELSE 2
           /\ e.weight \in Nat
           /\ 2 * e.weight <= low[2] * e.factor
           /\ low[2] * e.factor < 2 * e.weight + 2
           /\ e.terrain = low[1]

(* A tie between two labels, and a diagonal weight that was truncated. *)
C5_Witness ==
    /\ \E e \in SeqRange(graph.edges) :
          /\ density_dict[graph.node[e.s]][2] = density_dict[graph.node[e.t]][2]
          /\ density_dict[graph.node[e.s]][1] # density_dict[graph.node[e.t]][1]
    /\ \E e \in SeqRange(graph.edges) :
          /\ e.factor = Diagonal
          /\ 2 * e.weight < 3 * density_dict[graph.node[e.s]][2]
          /\ 2 * e.weight < 3 * density_dict[graph.node[e.t]][2]

(* C6: after read_nodes with a positive step, read_edges and read_path do *)
(* not fail on a colour the terrain table lacks.                          *)
C6_UnknownColourTolerated ==
    (step_size # Unset /\ result.op \in {"read_edges", "read_path"}) =>
        (step_size[1] > 0 => result.error # "KeyError")

(* The 3x3 scenario: columns 0 and 1 Plain, column 2 Water, step 1, and   *)
(* the query from (0,0) to (1,0) with pixel_length 1.                     *)
C7_Scenario ==
    /\ image = Image3x3
    /\ step_size = Set(1)
    /\ density_dict = TablePlainWater
    /\ result.op = "read_path"
    /\ query.source = <<0, 0>>
    /\ query.target = <<1, 0>>
    /\ query.pixel_length = 1

(* C7 as claimed: the query returns [(0,0),(1,0)] and one stage, Plain,   *)
(* distance 1 (two halves) and cost 1.                                    *)
C7_Original ==
    C7_Scenario =>
        /\ result.status = "ok"
        /\ result.nodes = << <<0, 0>>, <<1, 0>> >>
        /\ Len(result.stages) = 1
        /\ result.stages[1].terrain = "Plain"
        /\ result.stages[1].distance = 2
        /\ result.stages[1].cost = 1

(* C7 amended: on the 3x3 image read_nodes samples (0,0), (0,1), (1,0)    *)
(* and (1,1) only, the inset sweep of read_edges is empty, and the query  *)
(* from (0,0) to (1,0) fails: there is no path.                           *)
C7_Amended ==
    C7_Scenario =>
        /\ DOMAIN graph.node = (0 .. 1) \X (0 .. 1)
        /\ graph.edges = <<>>
        /\ result.status = "error"
        /\ result.error = "NetworkXNoPath"

C7_Witness == C7_Scenario /\ query.rest = 0

(* C8: read_nodes with a step of 0 or less ends in an error. *)
C8_NonPositiveStepFails ==
    (result.op = "read_nodes" /\ step_size[1] <= 0) => result.status = "error"

(* C9: every stage entry carries the distance and the cost of the edges   *)
(* walked since the entry before it, so the stage costs add up to the     *)
(* cost of the path.                                                      *)
C9_StageSums ==
    Returned =>
        /\ \A j \in 1 .. Len(result.stages) :
              /\ result.stages[j].distance
                    = SpanDistance(Nth(Emissions, j - 1), Nth(Emissions, j))
              /\ result.stages[j].cost = SpanCost(Nth(Emissions, j - 1), Nth(Emissions, j))
        /\ Costs(result.stages) = SpanCost(0, EdgeCount)

(* C10: right after read_nodes the graph has no edge; with a positive     *)
(* step the nodes are exactly the sample points of the current step; and  *)
(* every edge joins two nodes of the graph that lie the current step      *)
(* apart in one of the four forward directions.                           *)
C10_RebuildClearsEdges ==
    /\ result.op = "read_nodes" => graph.edges = <<>>
    /\ (step_size # Unset) =>
          (step_size[1] > 0 =>
              DOMAIN graph.node
                 = {p \in (0 .. image.width - 2) \X (0 .. image.height - 2) :
                       p[1] % step_size[1] = 0 /\ p[2] % step_size[1] = 0})
    /\ \A k \in 1 .. Len(graph.edges) :
          LET e == graph.edges[k]
              st == step_size[1]
          IN /\ e.s \in DOMAIN graph.node
             /\ e.t \in DOMAIN graph.node
             /\ <<e.t[1] - e.s[1], e.t[2] - e.s[2]>>
                   \in {<<st, 0>>, <<0, st>>, <<st, st>>, <<st, -st>>}

(* Edges of a step other than the first one a graph can be built with. *)
C10_Witness == step_size = Set(2) /\ Len(graph.edges) = 4

====
